---- MODULE Spec2Model ----
(***************************************************************************)
(* State-change detection and notification dispatch of docker-monitor:     *)
(* StateTracker, ChangeDetector, CooldownManager, NotificationManager and  *)
(* the poll cycle that composes them.                                      *)
(*                                                                         *)
(* A Python dict that the code iterates is a record [keys, val]: keys is   *)
(* the insertion order, val the mapping.  A dict that is only looked up is *)
(* a function whose DOMAIN is its key set.  None is the string "None", the *)
(* empty started time '' is 0 and the started times t1, t2, ... are 1, 2.  *)
(*                                                                         *)
(* MonitoringThread is modelled statement by statement: every caller of    *)
(* start() or stop() and every background thread has a position, and a     *)
(* lock is a variable holding its owner.                                   *)
(***************************************************************************)
EXTENDS Integers, Sequences, FiniteSets, TLC

VARIABLES previous_states, container_info, previous_restart_counts,
          previous_started_times, last_notifications, now,
          current_states, changes, raised, fetch_failed, sent, pre, op, second

\* MonitoringThread: its fields, the three locks, and the position of every
\* caller of start()/stop() and of every background thread
VARIABLES monitoring, shutdown_event, monitor_thread, check_interval,
          lock, state_lock, cooldown_lock, tpc, cpc, joined, calls, last_raised

\* the variables of the tracker, the detector and the router
cvars == <<previous_states, container_info, previous_restart_counts,
           previous_started_times, last_notifications, now,
           current_states, changes, raised, fetch_failed, sent, pre, op, second>>

\* the variables of the monitoring thread
tvars == <<monitoring, shutdown_event, monitor_thread, check_interval,
           lock, state_lock, cooldown_lock, tpc, cpc, joined, calls, last_raised>>

\* the calls of the Slack notifier's send methods, in order
VARIABLES send_log

\* the change last handed to NotificationFormatter.create_notification and
\* the notification it returned
VARIABLES formatted, notification

svars == <<send_log, formatted, notification>>

vars == <<cvars, tvars, svars>>

\* ------------------------------------------------------------------ bounds
MaxRestart == 1
MaxBatch == 2
MaxLog == 2

\* ------------------------------------------------------- input alphabets
Names == {"a", "b"}
Statuses == {"running", "exited", "paused"}
RestartCounts == 0..MaxRestart
StartedTimes == {0, 1, 2}

None == "None"
NA == "-"
NoCount == -1

\* ------------------------------------------------------------ dict helpers
EmptyMap == [k \in {} |-> 0]
EmptyDict == [keys |-> <<>>, val |-> EmptyMap]

Get(f, k, d) == IF k \in DOMAIN f THEN f[k] ELSE d

Put(f, k, v) == [x \in (DOMAIN f) \cup {k} |-> IF x = k THEN v ELSE f[x]]

Pop(f, k) == [x \in (DOMAIN f) \ {k} |-> f[x]]

\* container.get(...) on the info dict of one container; {} when unknown
EmptyInfo == [status |-> "unknown", restart_count |-> 0, started |-> 0]

get_container_info(info, name) == Get(info, name, EmptyInfo)

\* ------------------------------------------------------------ change dicts
Change(type, name, ps, cs, rtype, prc, crc, pst, cst) ==
    [type |-> type, container_name |-> name,
     previous_status |-> ps, current_status |-> cs, restart_type |-> rtype,
     previous_restart_count |-> prc, current_restart_count |-> crc,
     previous_started_time |-> pst, current_started_time |-> cst]

\* ------------------------------------------------------------ StateTracker
\* get_current_states: states and container_info built from one listing
StatesOf(listing) ==
    [keys |-> listing.keys,
     val |-> [n \in DOMAIN listing.val |-> listing.val[n].status]]

\* initialize_states: restart counts and started times of every container
SeedRestartCounts(info) == [n \in DOMAIN info |-> info[n].restart_count]

SeedStartedTimes(info) ==
    [n \in {m \in DOMAIN info : info[m].started # 0} |-> info[n].started]

\* update_started_time
update_started_time(st, name, started_time) == Put(st, name, started_time)

\* remove_container_tracking
remove_container_tracking(t, name) ==
    [t EXCEPT !.rc = Pop(t.rc, name), !.st = Pop(t.st, name)]

\* ---------------------------------------------------------- ChangeDetector
ManualRestartFrom == {"stopped", "exited", "created", "restarting"}
StopTo == {"stopped", "exited", "dead"}
StartFrom == {"stopped", "exited", "created", "paused"}

\* a restart count compared with >= instead of >
AutoRestartFires_Geq(current_restart_count, previous_restart_count) ==
    current_restart_count >= previous_restart_count

\* _detect_restart_count_changes: the condition under which it appends
AutoRestartFires(current_restart_count, previous_restart_count) ==
    current_restart_count > previous_restart_count

\* _detect_manual_restarts: the condition under which it appends
ManualRestartFires(current_status, previous_status, current_started_time, previous_started_time) ==
    /\ current_status = "running"
    /\ previous_started_time # 0
    /\ current_started_time # previous_started_time
    /\ previous_status \in ManualRestartFrom

\* the type of the status-transition change
TransitionType(previous_status, current_status) ==
    IF previous_status = "running" /\ current_status \in StopTo
    THEN "container_stopped"
    ELSE IF previous_status \in StartFrom /\ current_status = "running"
         THEN "container_started"
         ELSE "state_change"

\* the guard without its "not restart_changes" conjunct
StatusTransitionChecked_IgnoresAuto(auto, manual, previous_status, current_status) ==
    /\ ~manual
    /\ previous_status # None
    /\ previous_status # current_status

\* the guard of the status-transition branch: no restart detected, a
\* previous status, and a different one
StatusTransitionChecked(auto, manual, previous_status, current_status) ==
    /\ ~auto
    /\ ~manual
    /\ previous_status # None
    /\ previous_status # current_status

\* whether the loop body reads manual_restart_changes before any iteration
\* has assigned it (the name is bound only under "if previous_status:")
ReadsUnbound(auto, assigned) == ~auto /\ ~assigned

\* One iteration of the first loop of detect_changes.  acc carries the
\* tracker's maps (rc, st), the changes so far, whether the local name
\* manual_restart_changes is bound (assigned) and non-empty (manual), and
\* whether an exception has left the loop (raised).
DetectOne(acc, name, current_status, previous_status, info) ==
    IF acc.raised THEN acc
    ELSE
    LET ci == get_container_info(info, name)
        prc == Get(acc.rc, name, 0)
        auto == AutoRestartFires(ci.restart_count, prc)
        hasPrev == previous_status # None
        pst == Get(acc.st, name, 0)
        fires == hasPrev /\ ManualRestartFires(current_status, previous_status,
                                               ci.started, pst)
        assigned == acc.assigned \/ hasPrev
        manual == IF hasPrev THEN fires ELSE acc.manual
        autoCh == IF auto
                  THEN <<Change("container_restarted", name, NA, current_status,
                                "automatic", prc, ci.restart_count, NoCount, NoCount)>>
                  ELSE <<>>
        manCh == IF fires
                 THEN <<Change("container_restarted", name, NA, current_status,
                               "manual", NoCount, NoCount, pst, ci.started)>>
                 ELSE <<>>
        transition == StatusTransitionChecked(auto, manual, previous_status,
                                              current_status)
        trCh == IF transition
                THEN <<Change(TransitionType(previous_status, current_status), name,
                              previous_status, current_status, NA,
                              NoCount, NoCount, NoCount, NoCount)>>
                ELSE <<>>
    IN  [rc |-> IF auto THEN Put(acc.rc, name, ci.restart_count) ELSE acc.rc,
         st |-> IF hasPrev /\ ci.started # 0
                THEN update_started_time(acc.st, name, ci.started) ELSE acc.st,
         assigned |-> assigned,
         manual |-> manual,
         raised |-> ReadsUnbound(auto, assigned),
         changes |-> IF ReadsUnbound(auto, assigned)
                     THEN acc.changes \o autoCh
                     ELSE acc.changes \o autoCh \o manCh \o trCh]

\* _detect_new_containers, one iteration
DetectNew(acc, name, current_status, previous, info) ==
    IF acc.raised \/ name \in DOMAIN previous.val THEN acc
    ELSE
    LET ci == get_container_info(info, name)
    IN  [acc EXCEPT
           !.changes = @ \o <<Change("container_added", name, NA, current_status,
                                     NA, NoCount, NoCount, NoCount, NoCount)>>,
           !.rc = Put(@, name, ci.restart_count),
           !.st = IF ci.started # 0
                  THEN update_started_time(@, name, ci.started) ELSE @]

\* _detect_removed_containers, one iteration
DetectRemoved(acc, name, current, previous) ==
    IF acc.raised \/ name \in DOMAIN current.val THEN acc
    ELSE
    LET t == remove_container_tracking(acc, name)
    IN  [t EXCEPT
           !.changes = @ \o <<Change("container_removed", name, previous.val[name],
                                     NA, NA, NoCount, NoCount, NoCount, NoCount)>>]

\* a loop that runs its body twice for every container
RECURSIVE LoopExisting_Twice(_, _, _, _, _)
LoopExisting_Twice(acc, i, current, previous, info) ==
    IF i > Len(current.keys) THEN acc
    ELSE LET name == current.keys[i]
             once == DetectOne(acc, name, current.val[name],
                               Get(previous.val, name, None), info)
         IN  LoopExisting_Twice(DetectOne(once, name, current.val[name],
                                          Get(previous.val, name, None), info),
                                i + 1, current, previous, info)

RECURSIVE LoopExisting(_, _, _, _, _)
LoopExisting(acc, i, current, previous, info) ==
    IF i > Len(current.keys) THEN acc
    ELSE LET name == current.keys[i]
         IN  LoopExisting(DetectOne(acc, name, current.val[name],
                                    Get(previous.val, name, None), info),
                          i + 1, current, previous, info)

RECURSIVE LoopNew(_, _, _, _, _)
LoopNew(acc, i, current, previous, info) ==
    IF i > Len(current.keys) THEN acc
    ELSE LET name == current.keys[i]
         IN  LoopNew(DetectNew(acc, name, current.val[name], previous, info),
                     i + 1, current, previous, info)

RECURSIVE LoopRemoved(_, _, _, _)
LoopRemoved(acc, i, current, previous) ==
    IF i > Len(previous.keys) THEN acc
    ELSE LoopRemoved(DetectRemoved(acc, previous.keys[i], current, previous),
                     i + 1, current, previous)

\* detect_changes(current_states, previous_states) on a tracker whose maps
\* are info, rc and st.  The result holds the tracker's maps afterwards, the
\* list returned (changes) and whether the call raised instead of returning.
detect_changes(current, previous, info, rc, st) ==
    LET acc0 == [rc |-> rc, st |-> st, assigned |-> FALSE, manual |-> FALSE,
                 raised |-> FALSE, changes |-> <<>>]
        a1 == LoopExisting(acc0, 1, current, previous, info)
        a2 == LoopNew(a1, 1, current, previous, info)
        a3 == LoopRemoved(a2, 1, current, previous)
    IN  [rc |-> a3.rc, st |-> a3.st, raised |-> a3.raised,
         changes |-> IF a3.raised THEN <<>> ELSE a3.changes]

\* --------------------------------------------------------- CooldownManager
cooldown_seconds == 120

\* the remaining time computed with the operands of the subtraction swapped
is_in_cooldown_Swapped(ln, key, t) ==
    /\ key \in DOMAIN ln
    /\ (t - ln[key]) - cooldown_seconds > 0

\* a cooldown that still holds when exactly cooldown_seconds have passed
is_in_cooldown_Inclusive(ln, key, t) ==
    /\ key \in DOMAIN ln
    /\ cooldown_seconds - (t - ln[key]) >= 0

\* is_in_cooldown at clock value t
is_in_cooldown(ln, key, t) ==
    /\ key \in DOMAIN ln
    /\ cooldown_seconds - (t - ln[key]) > 0

\* update_cooldown at clock value t
update_cooldown(ln, key, t) == Put(ln, key, t)

\* ----------------------------------------------------- NotificationManager
\* the list of _should_notify with container_added among its entries
critical_changes_WithAdded ==
    {"container_removed", "container_failed", "container_unhealthy",
     "container_stopped", "container_restarted", "container_started",
     "container_added"}

\* the list of _should_notify without its container_stopped entry
critical_changes_NoStopped ==
    {"container_removed", "container_failed", "container_unhealthy",
     "container_restarted", "container_started"}

\* the change types that _should_notify lets through before the cooldown check
critical_changes ==
    {"container_removed", "container_failed", "container_unhealthy",
     "container_stopped", "container_restarted", "container_started"}

\* _should_notify
should_notify(change, ln, t) ==
    IF change.type \in critical_changes THEN TRUE
    ELSE IF is_in_cooldown(ln, change.container_name, t) THEN FALSE
    ELSE IF change.type = "state_change"
         THEN ~(change.previous_status = "running" /\ change.current_status = "running")
         ELSE TRUE

\* what the sink does with one call: returns True, returns False or throws
SinkOutcomes == {"ok", "fail", "raise"}

\* _send_notification without its try/except: an exception of the sink leaves
\* the function
send_notification_Uncaught(acc, change, outcome) ==
    [ln |-> IF outcome = "ok"
            THEN update_cooldown(acc.ln, change.container_name, acc.t)
            ELSE acc.ln,
     t |-> acc.t,
     raised |-> outcome = "raise",
     sent |-> Append(acc.sent, [change |-> change, at |-> acc.t, outcome |-> outcome])]

\* a _send_notification that stores the time whatever the sink returned
send_notification_ArmsAlways(acc, change, outcome) ==
    [ln |-> update_cooldown(acc.ln, change.container_name, acc.t),
     t |-> acc.t,
     raised |-> FALSE,
     sent |-> Append(acc.sent, [change |-> change, at |-> acc.t, outcome |-> outcome])]

\* _send_notification at clock value acc.t: the sink is called and, when it
\* returns True, the cooldown of the change's key is updated
send_notification(acc, change, outcome) ==
    [ln |-> IF outcome = "ok"
            THEN update_cooldown(acc.ln, change.container_name, acc.t)
            ELSE acc.ln,
     t |-> acc.t,
     raised |-> FALSE,
     sent |-> Append(acc.sent, [change |-> change, at |-> acc.t, outcome |-> outcome])]

\* process_changes: the loop over the batch.  outcomes[i] is what the sink
\* does if it is called for batch[i].  The result is the cooldown map
\* afterwards and, per change, the outcome of the sink call or "skipped";
\* raised tells whether an exception left the loop.
RECURSIVE process_changes(_, _, _, _)
process_changes(acc, i, batch, outcomes) ==
    IF i > Len(batch) \/ acc.raised THEN acc
    ELSE LET change == batch[i]
             next == IF should_notify(change, acc.ln, acc.t)
                     THEN send_notification(acc, change, outcomes[i])
                     ELSE [acc EXCEPT !.sent =
                             Append(@, [change |-> change, at |-> acc.t,
                                        outcome |-> "skipped"])]
         IN  process_changes(next, i + 1, batch, outcomes)

Route(batch, ln, t, outcomes) ==
    process_changes([ln |-> ln, t |-> t, raised |-> FALSE, sent |-> <<>>],
                    1, batch, outcomes)

\* ----------------------------------------------------------- SlackNotifier
SendMethods == {"send_container_report", "send_error_notification",
                "send_custom_message"}

\* what happens inside the try block of a send method: building the message
\* raises, requests.post raises, response.raise_for_status raises, or all
\* three statements complete
TransportOutcomes == {"build_raises", "post_raises", "status_raises", "completes"}

\* send_custom_message builds its message from a dict literal; the other
\* two call a helper that reads the caller's data
OutcomesOf(method) ==
    IF method = "send_custom_message"
    THEN TransportOutcomes \ {"build_raises"}
    ELSE TransportOutcomes

\* a send method that does not call response.raise_for_status
send_Unchecked(method, outcome) ==
    [posted |-> outcome # "build_raises",
     result |-> IF outcome \in {"status_raises", "completes"} THEN "True" ELSE "False"]

\* send_container_report, send_error_notification, send_custom_message:
\* True after the last statement of the try block, False from the handler
\* of "except Exception"; nothing leaves the method as an exception
send(method, outcome) ==
    [posted |-> outcome # "build_raises",
     result |-> IF outcome = "completes" THEN "True" ELSE "False"]

\* --------------------------------------------------- NotificationFormatter
\* _create_state_change_notification: alert level and colour
state_change_level(previous_status, current_status) ==
    IF previous_status = "running" /\ current_status \in {"exited", "stopped", "dead"}
    THEN [alert_level |-> "critical", color |-> "#FF0000"]
    ELSE IF current_status = "restarting"
    THEN [alert_level |-> "warning", color |-> "#FFA500"]
    ELSE IF previous_status = "running" /\ current_status = "unhealthy"
    THEN [alert_level |-> "warning", color |-> "#FFA500"]
    ELSE [alert_level |-> "info", color |-> "#0099CC"]

\* _create_restart_notification: alert level and colour
restart_level(restart_type, current_status) ==
    IF restart_type \in {"automatic", "manual"} /\ current_status # "running"
    THEN [alert_level |-> "critical", color |-> "#FF0000"]
    ELSE [alert_level |-> "warning", color |-> "#FFA500"]

\* create_notification: the dispatch on the type of the change
create_notification(change) ==
    IF change.type = "state_change"
    THEN state_change_level(change.previous_status, change.current_status)
    ELSE IF change.type = "container_restarted"
    THEN restart_level(change.restart_type, change.current_status)
    ELSE IF change.type = "container_started"
    THEN [alert_level |-> "info", color |-> "#00AA00"]
    ELSE IF change.type = "container_stopped"
    THEN [alert_level |-> "critical", color |-> "#FF0000"]
    ELSE IF change.type = "container_removed"
    THEN [alert_level |-> "critical", color |-> "#FF0000"]
    ELSE IF change.type = "container_added"
    THEN [alert_level |-> "info", color |-> "#00AA00"]
    ELSE [alert_level |-> "info", color |-> "#0099CC"]

\* before the first call of create_notification
NoChange == Change("none", NA, NA, NA, NA, NoCount, NoCount, NoCount, NoCount)

NoNotification == [alert_level |-> "none", color |-> "none"]

\* the statuses a change handed to the formatter can carry
FormatStatuses == {"created", "running", "paused", "restarting", "exited",
                   "dead", "stopped", "unhealthy"}

\* the changes detect_changes can return for one container name
FormatChangesOf(name) ==
    {Change(TransitionType(pc[1], pc[2]), name, pc[1], pc[2], NA,
            NoCount, NoCount, NoCount, NoCount) :
        pc \in {q \in FormatStatuses \X FormatStatuses : q[1] # q[2]}}
    \cup {Change("container_restarted", name, NA, c, "automatic", rc[1], rc[2],
                  NoCount, NoCount) :
             c \in FormatStatuses,
             rc \in {q \in RestartCounts \X RestartCounts : q[1] < q[2]}}
    \cup {Change("container_restarted", name, NA, "running", "manual",
                  NoCount, NoCount, 1, 2)}
    \cup {Change("container_added", name, NA, c, NA, NoCount, NoCount, NoCount, NoCount) :
             c \in FormatStatuses}
    \cup {Change("container_removed", name, p, NA, NA, NoCount, NoCount, NoCount, NoCount) :
             p \in FormatStatuses}

FormatChanges == UNION {FormatChangesOf(name) : name \in Names}

\* ------------------------------------------------------ inventory listings
Infos == [status : Statuses, restart_count : RestartCounts, started : StartedTimes]

\* every order in which the inventory source can list the containers of S
Orders(S) ==
    {o \in [1..Cardinality(S) -> S] : \A i, j \in 1..Cardinality(S) : o[i] = o[j] => i = j}

\* the infos explored per container: every info for "a"; the others were
\* started at 1, never restarted, and are running or exited
PlainInfos == {[status |-> "running", restart_count |-> 0, started |-> 1],
               [status |-> "exited", restart_count |-> 0, started |-> 1]}

InfosOf(name) == IF name = "a" THEN Infos ELSE PlainInfos

Listings ==
    UNION {{[keys |-> o, val |-> v] :
              o \in Orders(S),
              v \in {w \in [S -> Infos] : \A n \in S : w[n] \in InfosOf(n)}} :
           S \in SUBSET Names}

\* the tracker's maps and the cooldown map, as recorded when a cycle starts
Tracked == [states |-> previous_states, rc |-> previous_restart_counts,
            st |-> previous_started_times, ln |-> last_notifications]

NoneTracked == [states |-> EmptyDict, rc |-> EmptyMap, st |-> EmptyMap,
                ln |-> EmptyMap]

\* the outcome of a second call of detect_changes, before there is one
NoSecond == [raised |-> FALSE, changes |-> <<>>]

\* -------------------------------------------------------- MonitoringThread
Callers == {"c1", "c2"}
Threads == {"t1", "t2"}
Free == "free"

check_interval_default == 10

\* positions of a background thread inside check_function
CyclePcs == {"fetch", "store", "detect", "route", "arm", "routed", "update"}

\* positions of a background thread between Thread.start() and its end
AlivePcs == {"entry", "test", "test_event", "wait", "wait_error", "exit", "finally"}
                \cup CyclePcs

\* positions of a caller inside start()
StartPcs == {"start_enter", "start_locked", "start_create", "start_create_locked",
             "start_launch"}

is_alive(t) == t # None /\ tpc[t] \in AlivePcs

\* MonitoringThread.__init__
ThreadInit ==
    /\ monitoring = FALSE
    /\ shutdown_event = FALSE
    /\ monitor_thread = None
    /\ check_interval = check_interval_default
    /\ lock = Free
    /\ state_lock = Free
    /\ cooldown_lock = Free
    /\ tpc = [t \in Threads |-> "none"]
    /\ cpc = [c \in Callers |-> "idle"]
    /\ joined = [c \in Callers |-> None]
    /\ calls = "none"
    /\ last_raised = FALSE

\* ------------------------------------------------------------------- Init
Init ==
    /\ previous_states = EmptyDict
    /\ container_info = EmptyMap
    /\ previous_restart_counts = EmptyMap
    /\ previous_started_times = EmptyMap
    /\ last_notifications = EmptyMap
    /\ now = 0
    /\ current_states = EmptyDict
    /\ changes = <<>>
    /\ raised = FALSE
    /\ fetch_failed = FALSE
    /\ sent = <<>>
    /\ pre = NoneTracked
    /\ op = "init"
    /\ second = NoSecond
    /\ ThreadInit
    /\ send_log = <<>>
    /\ formatted = NoChange
    /\ notification = NoNotification

\* ---------------------------------------------------------------- actions
\* StateTracker.initialize_states with the listing the inventory returns
InitializeStates(listing) ==
    /\ op = "init"
    /\ container_info' = listing.val
    /\ previous_states' = StatesOf(listing)
    /\ previous_restart_counts' = SeedRestartCounts(listing.val)
    /\ previous_started_times' = SeedStartedTimes(listing.val)
    /\ op' = "idle"
    /\ UNCHANGED <<last_notifications, now, current_states, changes, raised,
                   fetch_failed, sent, pre, second>>
    /\ UNCHANGED <<tvars, svars>>

\* one poll cycle, in the order of RealTimeMonitor._check_for_changes, over
\* StateTracker, ChangeDetector and NotificationManager: fetch, detect, route,
\* update previous states.  An exception of detect_changes ends the cycle.
\* fetched is the listing the inventory source returns; when the fetch
\* raises (failed) get_current_states returns {} and keeps container_info.
\* outcome is what the sink does with the calls of this cycle.
CheckForChanges(failed, fetched) ==
    /\ op = "idle"
    /\ \E current \in {IF failed THEN EmptyDict ELSE StatesOf(fetched)},
          info \in {IF failed THEN container_info ELSE fetched.val} :
       \E d \in {detect_changes(current, previous_states, info,
                                previous_restart_counts, previous_started_times)} :
       \E outcome \in SinkOutcomes :
       \E r \in {Route(d.changes, last_notifications, now,
                       [i \in 1..Len(d.changes) |-> outcome])} :
           /\ pre' = Tracked
           /\ fetch_failed' = failed
           /\ container_info' = info
           /\ current_states' = current
           /\ previous_restart_counts' = d.rc
           /\ previous_started_times' = d.st
           /\ raised' = (d.raised \/ r.raised)
           /\ changes' = d.changes
           /\ sent' = r.sent
           /\ last_notifications' = r.ln
           /\ now' = now
           /\ previous_states' = IF d.raised \/ r.raised THEN previous_states
                                  ELSE current
    /\ op' = "cycle"
    /\ UNCHANGED second
    /\ UNCHANGED <<tvars, svars>>

\* detect_changes called once more with the arguments of the cycle, on the
\* tracker as the cycle left it
DetectAgain ==
    /\ op = "cycle"
    /\ \E d \in {detect_changes(current_states, pre.states, container_info,
                                previous_restart_counts, previous_started_times)} :
           /\ second' = [raised |-> d.raised, changes |-> d.changes]
           /\ previous_restart_counts' = d.rc
           /\ previous_started_times' = d.st
    /\ op' = "again"
    /\ UNCHANGED <<previous_states, container_info, last_notifications, now,
                   current_states, changes, raised, fetch_failed, sent, pre>>
    /\ UNCHANGED <<tvars, svars>>

\* the loop's wait between two cycles: the locals of the cycle are gone
Wait ==
    /\ op \in {"cycle", "again"}
    /\ op' = "idle"
    /\ current_states' = EmptyDict
    /\ changes' = <<>>
    /\ raised' = FALSE
    /\ fetch_failed' = FALSE
    /\ sent' = <<>>
    /\ pre' = NoneTracked
    /\ second' = NoSecond
    /\ UNCHANGED <<previous_states, container_info, previous_restart_counts,
                   previous_started_times, last_notifications, now>>
    /\ UNCHANGED <<tvars, svars>>

Seed == \E listing \in Listings : InitializeStates(listing)

Poll == \E listing \in Listings : CheckForChanges(FALSE, listing)

PollFailed == CheckForChanges(TRUE, [keys |-> <<>>, val |-> EmptyMap])

Next == Seed \/ Poll \/ PollFailed \/ DetectAgain \/ Wait

Spec == Init /\ [][Next]_vars

\* ------------------------------------------ RealTimeMonitor, its own cycle
\* RealTimeMonitor keeps its own maps and its own detection; start_monitoring
\* seeds it with _update_container_states and its loop runs
\* _check_for_changes.  Its dicts are keyed by container id; an id is a name
\* of Names here.
notification_cooldown == 120

\* the type of the change of the status branch of _detect_changes
rtm_transition_type(previous_status, current_status) ==
    IF previous_status = "running" /\ current_status \in {"stopped", "exited", "dead"}
    THEN "container_stopped"
    ELSE IF /\ previous_status \in {"stopped", "exited", "created", "paused"}
            /\ current_status = "running"
         THEN "container_started"
         ELSE "state_change"

\* _detect_changes, one iteration of its first loop: the status change, then
\* the restart count, then the started time, which is stored whenever the
\* current one is not empty
rtm_detect_one(acc, container_id, current_status, previous_status, info) ==
    LET ci == get_container_info(info, container_id)
        prc == Get(acc.rc, container_id, 0)
        pst == Get(acc.st, container_id, 0)
        trCh == IF previous_status # None /\ previous_status # current_status
                THEN <<Change(rtm_transition_type(previous_status, current_status),
                              container_id, previous_status, current_status, NA,
                              NoCount, NoCount, NoCount, NoCount)>>
                ELSE <<>>
        auto == ci.restart_count > prc
        autoCh == IF auto
                  THEN <<Change("container_restarted", container_id, NA,
                                current_status, "automatic", prc, ci.restart_count,
                                NoCount, NoCount)>>
                  ELSE <<>>
        manual == /\ current_status = "running"
                  /\ pst # 0
                  /\ ci.started # pst
                  /\ previous_status = "running"
        manCh == IF manual
                 THEN <<Change("container_restarted", container_id, NA,
                               current_status, "manual", NoCount, NoCount,
                               pst, ci.started)>>
                 ELSE <<>>
    IN  [rc |-> IF auto THEN Put(acc.rc, container_id, ci.restart_count) ELSE acc.rc,
         st |-> IF ci.started # 0 THEN Put(acc.st, container_id, ci.started)
                ELSE acc.st,
         changes |-> acc.changes \o trCh \o autoCh \o manCh]

\* _detect_changes, one iteration of the loop over new containers
rtm_detect_new(acc, container_id, current_status, previous, info) ==
    IF container_id \in DOMAIN previous.val THEN acc
    ELSE
    LET ci == get_container_info(info, container_id)
    IN  [rc |-> Put(acc.rc, container_id, ci.restart_count),
         st |-> IF ci.started # 0 THEN Put(acc.st, container_id, ci.started)
                ELSE acc.st,
         changes |-> Append(acc.changes,
                            Change("container_added", container_id, NA,
                                   current_status, NA, NoCount, NoCount,
                                   NoCount, NoCount))]

\* _detect_changes, one iteration of the loop over removed containers
rtm_detect_removed(acc, container_id, current, previous) ==
    IF container_id \in DOMAIN current.val THEN acc
    ELSE [rc |-> Pop(acc.rc, container_id),
          st |-> Pop(acc.st, container_id),
          changes |-> Append(acc.changes,
                             Change("container_removed", container_id,
                                    previous.val[container_id], NA, NA,
                                    NoCount, NoCount, NoCount, NoCount))]

RECURSIVE rtm_loop_existing(_, _, _, _, _)
rtm_loop_existing(acc, i, current, previous, info) ==
    IF i > Len(current.keys) THEN acc
    ELSE LET id == current.keys[i]
         IN  rtm_loop_existing(rtm_detect_one(acc, id, current.val[id],
                                              Get(previous.val, id, None), info),
                               i + 1, current, previous, info)

RECURSIVE rtm_loop_new(_, _, _, _, _)
rtm_loop_new(acc, i, current, previous, info) ==
    IF i > Len(current.keys) THEN acc
    ELSE LET id == current.keys[i]
         IN  rtm_loop_new(rtm_detect_new(acc, id, current.val[id], previous, info),
                          i + 1, current, previous, info)

RECURSIVE rtm_loop_removed(_, _, _, _)
rtm_loop_removed(acc, i, current, previous) ==
    IF i > Len(previous.keys) THEN acc
    ELSE rtm_loop_removed(rtm_detect_removed(acc, previous.keys[i], current, previous),
                          i + 1, current, previous)

\* _update_container_states: the restart counts after it; it writes
\* _previous_states only
rtm_seed_restart_counts(rc, info) == rc

\* RealTimeMonitor._detect_changes(current_states, previous_states) with the
\* monitor's maps info, rc and st; the maps afterwards and the list returned
rtm_detect_changes(current, previous, info, rc, st) ==
    LET a1 == rtm_loop_existing([rc |-> rc, st |-> st, changes |-> <<>>],
                                1, current, previous, info)
        a2 == rtm_loop_new(a1, 1, current, previous, info)
    IN  rtm_loop_removed(a2, 1, current, previous)

\* RealTimeMonitor._is_in_cooldown at clock value t
rtm_is_in_cooldown(ln, container_id, t) ==
    /\ container_id \in DOMAIN ln
    /\ notification_cooldown - (t - ln[container_id]) > 0

\* RealTimeMonitor._should_notify
rtm_should_notify(change, ln, t) ==
    IF change.type \in {"container_removed", "container_failed",
                        "container_unhealthy", "container_stopped",
                        "container_restarted", "container_started"}
    THEN TRUE
    ELSE IF rtm_is_in_cooldown(ln, change.container_name, t) THEN FALSE
    ELSE IF change.type = "state_change"
         THEN ~(change.previous_status = "running" /\ change.current_status = "running")
         ELSE TRUE

\* the loop over the changes in _check_for_changes: a change that should be
\* notified is handed to send_custom_message, and when that returns True the
\* time of the container is stored, whatever the type of the change
RECURSIVE rtm_notify(_, _, _, _)
rtm_notify(acc, i, batch, outcome) ==
    IF i > Len(batch) THEN acc
    ELSE LET change == batch[i]
             notify == rtm_should_notify(change, acc.ln, acc.t)
         IN  rtm_notify(
                 [ln |-> IF notify /\ outcome = "ok"
                         THEN Put(acc.ln, change.container_name, acc.t)
                         ELSE acc.ln,
                  t |-> acc.t,
                  sent |-> Append(acc.sent,
                                  [change |-> change, at |-> acc.t,
                                   outcome |-> IF notify THEN outcome
                                               ELSE "skipped"])],
                 i + 1, batch, outcome)

\* what the monitor holds, with the container info of its last fetch
RtmTracked == [states |-> previous_states, rc |-> previous_restart_counts,
               st |-> previous_started_times, ln |-> last_notifications,
               info |-> container_info]

\* start_monitoring: the seed of _update_container_states from one fetch
StartMonitoring(listing) ==
    /\ op = "init"
    /\ container_info' = listing.val
    /\ previous_states' = StatesOf(listing)
    /\ previous_restart_counts' =
           rtm_seed_restart_counts(previous_restart_counts, listing.val)
    /\ op' = "rtm_seeded"
    /\ UNCHANGED <<previous_started_times, last_notifications, now,
                   current_states, changes, raised, fetch_failed, sent, pre, second>>
    /\ UNCHANGED <<tvars, svars>>

\* RealTimeMonitor._check_for_changes: fetch, _detect_changes, the loop over
\* the changes, the update of _previous_states.  When the fetch raises
\* (failed), _get_current_states returns {} and keeps _container_info.
RtmCheckForChanges(failed, fetched) ==
    /\ op \in {"rtm_seeded", "rtm_idle"}
    /\ \E current \in {IF failed THEN EmptyDict ELSE StatesOf(fetched)},
          info \in {IF failed THEN container_info ELSE fetched.val} :
       \E d \in {rtm_detect_changes(current, previous_states, info,
                                    previous_restart_counts,
                                    previous_started_times)} :
       \E outcome \in SinkOutcomes :
       \E r \in {rtm_notify([ln |-> last_notifications, t |-> now, sent |-> <<>>],
                            1, d.changes, outcome)} :
           /\ pre' = RtmTracked
           /\ fetch_failed' = failed
           /\ container_info' = info
           /\ current_states' = current
           /\ previous_restart_counts' = d.rc
           /\ previous_started_times' = d.st
           /\ changes' = d.changes
           /\ sent' = r.sent
           /\ last_notifications' = r.ln
           /\ previous_states' = current
    /\ op' = IF op = "rtm_seeded" THEN "rtm_first" ELSE "rtm_cycle"
    /\ UNCHANGED <<now, raised, second>>
    /\ UNCHANGED <<tvars, svars>>

\* the wait of RealTimeMonitor._monitoring_loop between two cycles
RtmWait ==
    /\ op \in {"rtm_first", "rtm_cycle"}
    /\ op' = "rtm_idle"
    /\ current_states' = EmptyDict
    /\ changes' = <<>>
    /\ fetch_failed' = FALSE
    /\ sent' = <<>>
    /\ pre' = NoneTracked
    /\ UNCHANGED <<previous_states, container_info, previous_restart_counts,
                   previous_started_times, last_notifications, now, raised, second>>
    /\ UNCHANGED <<tvars, svars>>

RtmSeed == \E listing \in Listings : StartMonitoring(listing)

RtmPoll == \E listing \in Listings : RtmCheckForChanges(FALSE, listing)

RtmPollFailed == RtmCheckForChanges(TRUE, [keys |-> <<>>, val |-> EmptyMap])

NextRtm == RtmSeed \/ RtmPoll \/ RtmPollFailed \/ RtmWait

SpecRtm == Init /\ [][NextRtm]_vars

\* ------------------------- RealTimeMonitor._check_for_changes, step by step
\* The same cycle with one step per statement group: the fetch, the
\* detection, one step per change of the loop over the changes, and the
\* update of _previous_states.  sent holds one entry per change handled, so
\* its length is the position of the loop.  The listings of this
\* specification hold containers that never restarted and started at 1.
StepListings ==
    {l \in Listings :
        \A n \in DOMAIN l.val : l.val[n].restart_count = 0 /\ l.val[n].started = 1}

\* an update of _previous_states that does not wait for the loop to end
loop_over_changes_ended_Early(handled, detected) == TRUE

\* the for loop over the changes has handled every change
loop_over_changes_ended(handled, detected) == Len(handled) = Len(detected)

\* _get_current_states at the head of the cycle
RtmFetch(failed, fetched) ==
    /\ op \in {"rtm_seeded", "rtm_idle"}
    /\ pre' = RtmTracked
    /\ fetch_failed' = failed
    /\ container_info' = IF failed THEN container_info ELSE fetched.val
    /\ current_states' = IF failed THEN EmptyDict ELSE StatesOf(fetched)
    /\ changes' = <<>>
    /\ sent' = <<>>
    /\ op' = "rtm_fetched"
    /\ UNCHANGED <<previous_states, previous_restart_counts, previous_started_times,
                   last_notifications, now, raised, second>>
    /\ UNCHANGED <<tvars, svars>>

\* changes = self._detect_changes(current_states, previous_states)
RtmDetect ==
    /\ op = "rtm_fetched"
    /\ \E d \in {rtm_detect_changes(current_states, previous_states, container_info,
                                    previous_restart_counts,
                                    previous_started_times)} :
           /\ changes' = d.changes
           /\ previous_restart_counts' = d.rc
           /\ previous_started_times' = d.st
    /\ op' = "rtm_routing"
    /\ UNCHANGED <<previous_states, container_info, last_notifications, now,
                   current_states, raised, fetch_failed, sent, pre, second>>
    /\ UNCHANGED <<tvars, svars>>

\* one iteration of the loop over the changes
RtmRouteOne(outcome) ==
    /\ op = "rtm_routing"
    /\ Len(sent) < Len(changes)
    /\ \E r \in {rtm_notify([ln |-> last_notifications, t |-> now, sent |-> <<>>],
                            1, <<changes[Len(sent) + 1]>>, outcome)} :
           /\ sent' = sent \o r.sent
           /\ last_notifications' = r.ln
    /\ UNCHANGED <<previous_states, container_info, previous_restart_counts,
                   previous_started_times, now, current_states, changes, raised,
                   fetch_failed, pre, op, second>>
    /\ UNCHANGED <<tvars, svars>>

\* an iteration raises outside the inner try (while the notification is
\* built): the outer handler logs it and the cycle ends
RtmRouteRaise ==
    /\ op = "rtm_routing"
    /\ Len(sent) < Len(changes)
    /\ op' = "rtm_aborted"
    /\ UNCHANGED <<previous_states, container_info, previous_restart_counts,
                   previous_started_times, last_notifications, now, current_states,
                   changes, raised, fetch_failed, sent, pre, second>>
    /\ UNCHANGED <<tvars, svars>>

\* self._previous_states = current_states.copy(), after the loop
RtmUpdate ==
    /\ op = "rtm_routing"
    /\ loop_over_changes_ended(sent, changes)
    /\ previous_states' = current_states
    /\ op' = "rtm_done"
    /\ UNCHANGED <<container_info, previous_restart_counts, previous_started_times,
                   last_notifications, now, current_states, changes, raised,
                   fetch_failed, sent, pre, second>>
    /\ UNCHANGED <<tvars, svars>>

\* the wait between two cycles
RtmStepWait ==
    /\ op \in {"rtm_done", "rtm_aborted"}
    /\ op' = "rtm_idle"
    /\ current_states' = EmptyDict
    /\ changes' = <<>>
    /\ fetch_failed' = FALSE
    /\ sent' = <<>>
    /\ pre' = NoneTracked
    /\ UNCHANGED <<previous_states, container_info, previous_restart_counts,
                   previous_started_times, last_notifications, now, raised, second>>
    /\ UNCHANGED <<tvars, svars>>

RtmStepSeed == \E listing \in StepListings : StartMonitoring(listing)

RtmStepFetch == \E listing \in StepListings : RtmFetch(FALSE, listing)

RtmStepFetchFailed == RtmFetch(TRUE, [keys |-> <<>>, val |-> EmptyMap])

RtmStepRoute == \E outcome \in SinkOutcomes : RtmRouteOne(outcome)

NextRtmSteps ==
    \/ RtmStepSeed
    \/ RtmStepFetch
    \/ RtmStepFetchFailed
    \/ RtmDetect
    \/ RtmStepRoute
    \/ RtmRouteRaise
    \/ RtmUpdate
    \/ RtmStepWait

SpecRtmSteps == Init /\ [][NextRtmSteps]_vars

\* ------------------------------------------- the router on its own, in time
\* the changes routed: every type for "a", a status change for "b"
RoutedChanges ==
    {Change("state_change", "a", "running", "paused", NA, NoCount, NoCount, NoCount, NoCount),
     Change("state_change", "b", "running", "paused", NA, NoCount, NoCount, NoCount, NoCount),
     Change("container_added", "a", NA, "running", NA, NoCount, NoCount, NoCount, NoCount),
     Change("container_stopped", "a", "running", "exited", NA, NoCount, NoCount, NoCount, NoCount),
     Change("container_started", "a", "exited", "running", NA, NoCount, NoCount, NoCount, NoCount),
     Change("container_restarted", "a", NA, "running", "automatic", 0, 1, NoCount, NoCount),
     Change("container_restarted", "a", NA, "running", "manual", NoCount, NoCount, 1, 2),
     Change("container_removed", "a", "running", NA, NA, NoCount, NoCount, NoCount, NoCount)}

\* seconds that pass before a call of process_changes
Delays == {5, 120, 125}

\* the batches of n changes
Batches(n) == [1..n -> RoutedChanges]

\* the batch sizes that still fit the log of sink calls
BatchSizes == {n \in 1..MaxBatch : Len(sent) + n <= MaxLog}

\* NotificationManager.process_changes(batch), delay seconds after the
\* previous call; sent keeps the calls of the whole run
ProcessChanges(delay, batch, outcomes) ==
    /\ op \in {"init", "route"}
    /\ Len(batch) \in BatchSizes
    /\ \E r \in {Route(batch, last_notifications, now + delay, outcomes)} :
           /\ sent' = sent \o r.sent
           /\ last_notifications' = r.ln
           /\ raised' = r.raised
    /\ now' = now + delay
    /\ pre' = Tracked
    /\ changes' = batch
    /\ op' = "route"
    /\ UNCHANGED <<previous_states, container_info, previous_restart_counts,
                   previous_started_times, current_states, fetch_failed, second>>
    /\ UNCHANGED <<tvars, svars>>

NextNotify ==
    \E delay \in Delays, n \in BatchSizes :
        \E batch \in Batches(n), outcomes \in [1..n -> SinkOutcomes] :
            ProcessChanges(delay, batch, outcomes)

SpecNotify == Init /\ [][NextNotify]_vars

\* ------------------------------------------------ the Slack notifier's sends
\* one call of a send method of SlackNotifier
Send(method, outcome) ==
    /\ Len(send_log) < MaxLog
    /\ \E r \in {send(method, outcome)} :
           send_log' = Append(send_log, [method |-> method, outcome |-> outcome,
                                         posted |-> r.posted, result |-> r.result])
    /\ UNCHANGED <<cvars, tvars, formatted, notification>>

NextSink == \E method \in SendMethods : \E outcome \in OutcomesOf(method) :
                Send(method, outcome)

SpecSink == Init /\ [][NextSink]_vars

\* ------------------------------------------------- the formatter on its own
\* one call of NotificationFormatter.create_notification
CreateNotification(change) ==
    /\ formatted' = change
    /\ notification' = create_notification(change)
    /\ UNCHANGED <<cvars, tvars, send_log>>

NextFormat == \E change \in FormatChanges : CreateNotification(change)

SpecFormat == Init /\ [][NextFormat]_vars

\* ------------------------------------------- MonitoringThread, its actions
\* "with lock:" entered by who: possible when nobody owns the lock
acquire(l, who) == who

\* "with lock:" left
release(l, who) == Free

\* a StateTracker method that returns with its lock still held
release_state_lock_Kept(l, who) == l

\* "with self._state_lock:" of a StateTracker method left
release_state_lock(l, who) == release(l, who)

\* start() skipping its test of the running flag
already_running_Unchecked(flag) == FALSE

\* start(): the test "if self._monitoring" under which it returns at once
already_running(flag) == flag

\* stop() going on whatever the running flag is
not_running_Unchecked(flag) == FALSE

\* stop(): the test "if not self._monitoring" under which it returns at once
not_running(flag) == ~flag

\* stop() leaving the running flag as it is
stopped_flag_Kept(flag) == flag

\* stop(): the value it gives the running flag
stopped_flag(flag) == FALSE

\* a loop that ends on an exception of check_function
on_cycle_exception_Fatal == "exit"

\* the loop's "except Exception": where the thread goes on from
on_cycle_exception == "wait_error"

\* a loop condition that does not look at the shutdown event
loop_sees_shutdown_Never(event) == FALSE

\* "not self._shutdown_event.is_set()" of the loop condition, negated
loop_sees_shutdown(event) == event

\* a Thread object not yet created, for the next start() to create
FreshThread == CHOOSE t \in Threads : tpc[t] = "none"

\* a caller calls start(): there is a Thread object left for it to create
StartCall(c) ==
    /\ cpc[c] = "idle"
    /\ Cardinality({t \in Threads : tpc[t] = "none"})
           > Cardinality({d \in Callers : cpc[d] \in StartPcs})
    /\ cpc' = [cpc EXCEPT ![c] = "start_enter"]
    /\ UNCHANGED <<cvars, svars>>
    /\ UNCHANGED <<monitoring, shutdown_event, monitor_thread, check_interval,
                   lock, state_lock, cooldown_lock, tpc, joined, calls, last_raised>>

\* start(): "with self._lock:" of the first block
StartLock(c) ==
    /\ cpc[c] = "start_enter"
    /\ lock = Free
    /\ lock' = acquire(lock, c)
    /\ cpc' = [cpc EXCEPT ![c] = "start_locked"]
    /\ UNCHANGED <<cvars, svars>>
    /\ UNCHANGED <<monitoring, shutdown_event, monitor_thread, check_interval,
                   state_lock, cooldown_lock, tpc, joined, calls, last_raised>>

\* start(): the first block: return when running, else set the flag and
\* clear the event
StartBody(c) ==
    /\ cpc[c] = "start_locked"
    /\ lock' = release(lock, c)
    /\ IF already_running(monitoring)
       THEN /\ cpc' = [cpc EXCEPT ![c] = "idle"]
            /\ UNCHANGED <<monitoring, shutdown_event, calls>>
       ELSE /\ monitoring' = TRUE
            /\ shutdown_event' = FALSE
            /\ calls' = IF calls = "none" THEN "none" ELSE "restarted"
            /\ cpc' = [cpc EXCEPT ![c] = "start_create"]
    /\ UNCHANGED <<cvars, svars>>
    /\ UNCHANGED <<monitor_thread, check_interval, state_lock, cooldown_lock,
                   tpc, joined, last_raised>>

\* start(): "with self._lock:" of the second block
StartCreateLock(c) ==
    /\ cpc[c] = "start_create"
    /\ lock = Free
    /\ lock' = acquire(lock, c)
    /\ cpc' = [cpc EXCEPT ![c] = "start_create_locked"]
    /\ UNCHANGED <<cvars, svars>>
    /\ UNCHANGED <<monitoring, shutdown_event, monitor_thread, check_interval,
                   state_lock, cooldown_lock, tpc, joined, calls, last_raised>>

\* start(): self._monitor_thread = threading.Thread(...)
StartCreate(c) ==
    /\ cpc[c] = "start_create_locked"
    /\ monitor_thread' = FreshThread
    /\ tpc' = [tpc EXCEPT ![FreshThread] = "created"]
    /\ lock' = release(lock, c)
    /\ cpc' = [cpc EXCEPT ![c] = "start_launch"]
    /\ UNCHANGED <<cvars, svars>>
    /\ UNCHANGED <<monitoring, shutdown_event, check_interval, state_lock,
                   cooldown_lock, joined, calls, last_raised>>

\* start(): self._monitor_thread.start(), on the Thread object the field
\* holds now; starting a started thread raises in the caller
StartLaunch(c) ==
    /\ cpc[c] = "start_launch"
    /\ tpc' = IF tpc[monitor_thread] = "created"
              THEN [tpc EXCEPT ![monitor_thread] = "entry"]
              ELSE tpc
    /\ cpc' = [cpc EXCEPT ![c] = "idle"]
    /\ UNCHANGED <<cvars, svars>>
    /\ UNCHANGED <<monitoring, shutdown_event, monitor_thread, check_interval,
                   lock, state_lock, cooldown_lock, joined, calls, last_raised>>

\* a caller calls stop()
StopCall(c) ==
    /\ cpc[c] = "idle"
    /\ cpc' = [cpc EXCEPT ![c] = "stop_enter"]
    /\ UNCHANGED <<cvars, svars>>
    /\ UNCHANGED <<monitoring, shutdown_event, monitor_thread, check_interval,
                   lock, state_lock, cooldown_lock, tpc, joined, calls, last_raised>>

\* stop(): "with self._lock:"
StopLock(c) ==
    /\ cpc[c] = "stop_enter"
    /\ lock = Free
    /\ lock' = acquire(lock, c)
    /\ cpc' = [cpc EXCEPT ![c] = "stop_locked"]
    /\ UNCHANGED <<cvars, svars>>
    /\ UNCHANGED <<monitoring, shutdown_event, monitor_thread, check_interval,
                   state_lock, cooldown_lock, tpc, joined, calls, last_raised>>

\* stop(): the block: return when not running, else clear the flag and
\* read the thread field
StopBody(c) ==
    /\ cpc[c] = "stop_locked"
    /\ lock' = release(lock, c)
    /\ IF not_running(monitoring)
       THEN /\ cpc' = [cpc EXCEPT ![c] = "idle"]
            /\ UNCHANGED <<monitoring, joined, calls>>
       ELSE /\ monitoring' = stopped_flag(monitoring)
            /\ joined' = [joined EXCEPT ![c] = monitor_thread]
            /\ calls' = "stopped"
            /\ cpc' = [cpc EXCEPT ![c] = "stop_signal"]
    /\ UNCHANGED <<cvars, svars>>
    /\ UNCHANGED <<shutdown_event, monitor_thread, check_interval, state_lock,
                   cooldown_lock, tpc, last_raised>>

\* stop(): self._shutdown_event.set()
StopSignal(c) ==
    /\ cpc[c] = "stop_signal"
    /\ shutdown_event' = TRUE
    /\ cpc' = [cpc EXCEPT ![c] = "stop_check"]
    /\ UNCHANGED <<cvars, svars>>
    /\ UNCHANGED <<monitoring, monitor_thread, check_interval, lock, state_lock,
                   cooldown_lock, tpc, joined, calls, last_raised>>

\* stop(): "if monitor_thread and monitor_thread.is_alive()"
StopCheck(c) ==
    /\ cpc[c] = "stop_check"
    /\ cpc' = [cpc EXCEPT ![c] = IF is_alive(joined[c]) THEN "stop_join" ELSE "idle"]
    /\ joined' = [joined EXCEPT ![c] = IF is_alive(joined[c]) THEN @ ELSE None]
    /\ UNCHANGED <<cvars, svars>>
    /\ UNCHANGED <<monitoring, shutdown_event, monitor_thread, check_interval,
                   lock, state_lock, cooldown_lock, tpc, calls, last_raised>>

\* stop(): monitor_thread.join(timeout=10) returns, because the thread has
\* ended or because the timeout has passed, and stop() returns
StopJoin(c) ==
    /\ cpc[c] = "stop_join"
    /\ cpc' = [cpc EXCEPT ![c] = "idle"]
    /\ joined' = [joined EXCEPT ![c] = None]
    /\ UNCHANGED <<cvars, svars>>
    /\ UNCHANGED <<monitoring, shutdown_event, monitor_thread, check_interval,
                   lock, state_lock, cooldown_lock, tpc, calls, last_raised>>

\* _monitoring_loop: "if not self.monitoring: return"
LoopEntry(t) ==
    /\ tpc[t] = "entry"
    /\ lock = Free
    /\ tpc' = [tpc EXCEPT ![t] = IF monitoring THEN "test" ELSE "exit"]
    /\ UNCHANGED <<cvars, svars>>
    /\ UNCHANGED <<monitoring, shutdown_event, monitor_thread, check_interval,
                   lock, state_lock, cooldown_lock, cpc, joined, calls, last_raised>>

\* the loop condition, its first operand: self.monitoring
LoopTest(t) ==
    /\ tpc[t] = "test"
    /\ lock = Free
    /\ tpc' = [tpc EXCEPT ![t] = IF monitoring THEN "test_event" ELSE "exit"]
    /\ UNCHANGED <<cvars, svars>>
    /\ UNCHANGED <<monitoring, shutdown_event, monitor_thread, check_interval,
                   lock, state_lock, cooldown_lock, cpc, joined, calls, last_raised>>

\* the loop condition, its second operand; when it passes, check_function
\* is called and the inventory fetch begins
LoopTestEvent(t) ==
    /\ tpc[t] = "test_event"
    /\ tpc' = [tpc EXCEPT ![t] = IF loop_sees_shutdown(shutdown_event)
                                 THEN "exit" ELSE "fetch"]
    /\ UNCHANGED <<cvars, svars>>
    /\ UNCHANGED <<monitoring, shutdown_event, monitor_thread, check_interval,
                   lock, state_lock, cooldown_lock, cpc, joined, calls, last_raised>>

\* get_current_states: the fetch returns and "with self._state_lock:" is
\* entered to store container_info
LoopFetch(t) ==
    /\ tpc[t] = "fetch"
    /\ state_lock = Free
    /\ state_lock' = acquire(state_lock, t)
    /\ tpc' = [tpc EXCEPT ![t] = "store"]
    /\ UNCHANGED <<cvars, svars>>
    /\ UNCHANGED <<monitoring, shutdown_event, monitor_thread, check_interval,
                   lock, cooldown_lock, cpc, joined, calls, last_raised>>

\* get_current_states: the fetch raises and {} is returned
LoopFetchFailed(t) ==
    /\ tpc[t] = "fetch"
    /\ tpc' = [tpc EXCEPT ![t] = "detect"]
    /\ UNCHANGED <<cvars, svars>>
    /\ UNCHANGED <<monitoring, shutdown_event, monitor_thread, check_interval,
                   lock, state_lock, cooldown_lock, cpc, joined, calls, last_raised>>

\* get_current_states: container_info is stored and the lock left
LoopStore(t) ==
    /\ tpc[t] = "store"
    /\ state_lock' = release_state_lock(state_lock, t)
    /\ tpc' = [tpc EXCEPT ![t] = "detect"]
    /\ UNCHANGED <<cvars, svars>>
    /\ UNCHANGED <<monitoring, shutdown_event, monitor_thread, check_interval,
                   lock, cooldown_lock, cpc, joined, calls, last_raised>>

\* the changes are detected: there is one to hand to the sink, or none
LoopDetect(t) ==
    /\ tpc[t] = "detect"
    /\ \E next \in {"route", "routed"} : tpc' = [tpc EXCEPT ![t] = next]
    /\ UNCHANGED <<cvars, svars>>
    /\ UNCHANGED <<monitoring, shutdown_event, monitor_thread, check_interval,
                   lock, state_lock, cooldown_lock, cpc, joined, calls, last_raised>>

\* _send_notification: the sink returns True and update_cooldown enters
\* "with self._lock:" of the CooldownManager
LoopSink(t) ==
    /\ tpc[t] = "route"
    /\ cooldown_lock = Free
    /\ cooldown_lock' = acquire(cooldown_lock, t)
    /\ tpc' = [tpc EXCEPT ![t] = "arm"]
    /\ UNCHANGED <<cvars, svars>>
    /\ UNCHANGED <<monitoring, shutdown_event, monitor_thread, check_interval,
                   lock, state_lock, cpc, joined, calls, last_raised>>

\* _send_notification: the sink returns False or throws
LoopSinkFailed(t) ==
    /\ tpc[t] = "route"
    /\ tpc' = [tpc EXCEPT ![t] = "routed"]
    /\ UNCHANGED <<cvars, svars>>
    /\ UNCHANGED <<monitoring, shutdown_event, monitor_thread, check_interval,
                   lock, state_lock, cooldown_lock, cpc, joined, calls, last_raised>>

\* update_cooldown: the entry is written and the lock left
LoopArm(t) ==
    /\ tpc[t] = "arm"
    /\ cooldown_lock' = release(cooldown_lock, t)
    /\ tpc' = [tpc EXCEPT ![t] = "routed"]
    /\ UNCHANGED <<cvars, svars>>
    /\ UNCHANGED <<monitoring, shutdown_event, monitor_thread, check_interval,
                   lock, state_lock, cpc, joined, calls, last_raised>>

\* update_previous_states enters "with self._state_lock:"
LoopRouted(t) ==
    /\ tpc[t] = "routed"
    /\ state_lock = Free
    /\ state_lock' = acquire(state_lock, t)
    /\ tpc' = [tpc EXCEPT ![t] = "update"]
    /\ UNCHANGED <<cvars, svars>>
    /\ UNCHANGED <<monitoring, shutdown_event, monitor_thread, check_interval,
                   lock, cooldown_lock, cpc, joined, calls, last_raised>>

\* update_previous_states: the states are stored and the lock left;
\* check_function returns
LoopUpdate(t) ==
    /\ tpc[t] = "update"
    /\ state_lock' = release_state_lock(state_lock, t)
    /\ tpc' = [tpc EXCEPT ![t] = "wait"]
    /\ last_raised' = FALSE
    /\ UNCHANGED <<cvars, svars>>
    /\ UNCHANGED <<monitoring, shutdown_event, monitor_thread, check_interval,
                   lock, cooldown_lock, cpc, joined, calls>>

\* check_function raises, outside any "with" block
LoopRaise(t) ==
    /\ tpc[t] \in {"fetch", "detect", "routed"}
    /\ tpc' = [tpc EXCEPT ![t] = on_cycle_exception]
    /\ last_raised' = TRUE
    /\ UNCHANGED <<cvars, svars>>
    /\ UNCHANGED <<monitoring, shutdown_event, monitor_thread, check_interval,
                   lock, state_lock, cooldown_lock, cpc, joined, calls>>

\* self._shutdown_event.wait(timeout=self.check_interval): break when the
\* event is set, else back to the loop condition after the timeout
LoopWait(t) ==
    /\ tpc[t] \in {"wait", "wait_error"}
    /\ tpc' = [tpc EXCEPT ![t] = IF shutdown_event THEN "exit" ELSE "test"]
    /\ UNCHANGED <<cvars, svars>>
    /\ UNCHANGED <<monitoring, shutdown_event, monitor_thread, check_interval,
                   lock, state_lock, cooldown_lock, cpc, joined, calls, last_raised>>

\* finally: "with self._lock:"
LoopExit(t) ==
    /\ tpc[t] = "exit"
    /\ lock = Free
    /\ lock' = acquire(lock, t)
    /\ tpc' = [tpc EXCEPT ![t] = "finally"]
    /\ UNCHANGED <<cvars, svars>>
    /\ UNCHANGED <<monitoring, shutdown_event, monitor_thread, check_interval,
                   state_lock, cooldown_lock, cpc, joined, calls, last_raised>>

\* finally: self._monitoring = False, and the thread ends
LoopFinally(t) ==
    /\ tpc[t] = "finally"
    /\ monitoring' = FALSE
    /\ lock' = release(lock, t)
    /\ tpc' = [tpc EXCEPT ![t] = "done"]
    /\ UNCHANGED <<cvars, svars>>
    /\ UNCHANGED <<shutdown_event, monitor_thread, check_interval, state_lock,
                   cooldown_lock, cpc, joined, calls, last_raised>>

\* get_status(): the dict it builds inside "with self._lock:", from the
\* fields as they are while the caller holds the lock
get_status ==
    [monitoring         |-> monitoring,
     thread_alive       |-> is_alive(monitor_thread),
     check_interval     |-> check_interval,
     shutdown_event_set |-> shutdown_event]

\* the steps of a call in progress
CallerStep(c) ==
    \/ StartLock(c) \/ StartBody(c) \/ StartCreateLock(c) \/ StartCreate(c)
    \/ StartLaunch(c)
    \/ StopLock(c) \/ StopBody(c) \/ StopSignal(c) \/ StopCheck(c) \/ StopJoin(c)

\* the steps of a background thread in which check_function does not raise
ThreadStep(t) ==
    \/ LoopEntry(t) \/ LoopTest(t) \/ LoopTestEvent(t)
    \/ LoopFetch(t) \/ LoopFetchFailed(t) \/ LoopStore(t) \/ LoopDetect(t)
    \/ LoopSink(t) \/ LoopSinkFailed(t) \/ LoopArm(t) \/ LoopRouted(t)
    \/ LoopUpdate(t) \/ LoopWait(t) \/ LoopExit(t) \/ LoopFinally(t)

NextThread ==
    \/ \E c \in Callers : StartCall(c) \/ StopCall(c) \/ CallerStep(c)
    \/ \E t \in Threads : ThreadStep(t) \/ LoopRaise(t)

\* every call in progress and every live thread goes on: the scheduler runs
\* them, a lock is held for a few statements only, and check_function ends
SpecThread ==
    /\ Init
    /\ [][NextThread]_vars
    /\ \A c \in Callers : SF_vars(CallerStep(c))
    /\ \A t \in Threads : SF_vars(ThreadStep(t))

\* --------------------------------- the cycle over restart counts of all
\* the infos of containers that run, were started at 1 and have any restart
\* count
CountInfos ==
    {[status |-> "running", restart_count |-> c, started |-> 1] : c \in RestartCounts}

\* the listings of such containers, in every order
CountListings ==
    UNION {{[keys |-> o, val |-> v] : o \in Orders(S), v \in [S -> CountInfos]} :
           S \in SUBSET Names}

SeedCounts == \E listing \in CountListings : InitializeStates(listing)

PollCounts == \E listing \in CountListings : CheckForChanges(FALSE, listing)

NextCounts == SeedCounts \/ PollCounts \/ Wait

SpecCounts == Init /\ [][NextCounts]_vars

\* ============================================================ properties
Idx == 1..Len(changes)

EventsFor(n) == {i \in Idx : changes[i].container_name = n}

TypedFor(n, types) == {i \in EventsFor(n) : changes[i].type \in types}

RestartsFor(n, kind) ==
    {i \in TypedFor(n, {"container_restarted"}) : changes[i].restart_type = kind}

TransitionTypes == {"container_stopped", "container_started", "state_change"}

InCurrent(n) == n \in DOMAIN current_states.val
InPrevious(n) == n \in DOMAIN pre.states.val
IsNew(n) == InCurrent(n) /\ ~InPrevious(n)
IsKnown(n) == InCurrent(n) /\ InPrevious(n)
IsGone(n) == InPrevious(n) /\ ~InCurrent(n)

\* the values the tracker held for n when the cycle started
TrackedCount(n) == Get(pre.rc, n, 0)
TrackedStart(n) == Get(pre.st, n, 0)

\* C1: in a cycle, detect_changes returns and its list holds exactly one
\* change for every container that is in current and not in previous, a
\* container_added one.
C1_NewGetsOneAdded ==
    op = "cycle" =>
        \A n \in Names :
            IsNew(n) =>
                /\ ~raised
                /\ Cardinality(EventsFor(n)) = 1
                /\ Cardinality(TypedFor(n, {"container_added"})) = 1

\* C2: a cycle whose inventory fetch failed has no change and no sink call
\* and leaves previous states, restart counts and started times as they were.
C2_FailedFetchKeepsState ==
    (op = "cycle" /\ fetch_failed) =>
        /\ changes = <<>>
        /\ sent = <<>>
        /\ previous_states = pre.states
        /\ previous_restart_counts = pre.rc
        /\ previous_started_times = pre.st

\* the snapshot of the cycle equals what the tracker held
SameAsTracked ==
    /\ DOMAIN current_states.val = DOMAIN pre.states.val
    /\ \A n \in DOMAIN current_states.val :
           /\ current_states.val[n] = pre.states.val[n]
           /\ container_info[n].restart_count = TrackedCount(n)
           /\ container_info[n].started = TrackedStart(n)

\* C3: when current has the containers of previous, each with the previous
\* status and the tracked restart count and started time, detect_changes
\* returns the empty list.
C3_SameSnapshotNoChanges ==
    (op = "cycle" /\ ~fetch_failed /\ SameAsTracked) => (~raised /\ changes = <<>>)

C3_Witness ==
    /\ op = "cycle" /\ ~fetch_failed /\ SameAsTracked
    /\ DOMAIN current_states.val = Names
    /\ \E n \in Names : container_info[n].restart_count > 0
    /\ changes = <<>>

\* C4: a known container whose restart count exceeds the tracked one gets
\* exactly one automatic container_restarted change, and no other change
\* when it was and is running.
C4_OneAutomaticRestart ==
    op = "cycle" =>
        \A n \in Names :
            (IsKnown(n) /\ container_info[n].restart_count > TrackedCount(n)) =>
                /\ Cardinality(RestartsFor(n, "automatic")) = 1
                /\ (pre.states.val[n] = "running" /\ current_states.val[n] = "running")
                       => Cardinality(EventsFor(n)) = 1

\* C5: a container with a container_restarted change in the list has no
\* container_stopped, container_started or state_change change in it.
C5_RestartSuppressesTransition ==
    \A n \in Names :
        TypedFor(n, {"container_restarted"}) # {} => TypedFor(n, TransitionTypes) = {}

C5_Witness ==
    /\ op = "cycle"
    /\ \E n \in Names :
           /\ IsKnown(n)
           /\ pre.states.val[n] = "running"
           /\ current_states.val[n] = "exited"
           /\ RestartsFor(n, "automatic") # {}
           /\ Cardinality(EventsFor(n)) = 1

\* C6: a manual container_restarted change is in the list only for a
\* container whose previous status is stopped, exited, created or
\* restarting, that is running, and whose tracked started time exists and
\* differs from the current one; a known container that was paused, is
\* running and has a changed started time gets a container_started change
\* and no container_restarted change.
C6_ManualRestartOnly ==
    op = "cycle" =>
        \A n \in Names :
            /\ RestartsFor(n, "manual") # {} =>
                   /\ IsKnown(n)
                   /\ pre.states.val[n] \in {"stopped", "exited", "created", "restarting"}
                   /\ current_states.val[n] = "running"
                   /\ TrackedStart(n) # 0
                   /\ container_info[n].started # TrackedStart(n)
            /\ (/\ IsKnown(n)
                /\ pre.states.val[n] = "paused"
                /\ current_states.val[n] = "running"
                /\ container_info[n].started # TrackedStart(n)) =>
                   /\ Cardinality(TypedFor(n, {"container_started"})) = 1
                   /\ TypedFor(n, {"container_restarted"}) = {}

\* C7: no container has both an automatic and a manual container_restarted
\* change in the list of one cycle.
C7_NotBothRestartKinds ==
    \A n \in Names : ~(RestartsFor(n, "automatic") # {} /\ RestartsFor(n, "manual") # {})

\* C8: every container of previous that is not in current gets exactly one
\* container_removed change with its last status, and after the cycle the
\* tracker holds no previous status, restart count or started time for it.
C8_RemovedAndForgotten ==
    op = "cycle" =>
        \A n \in Names :
            IsGone(n) =>
                /\ Cardinality(EventsFor(n)) = 1
                /\ \A i \in EventsFor(n) :
                       /\ changes[i].type = "container_removed"
                       /\ changes[i].previous_status = pre.states.val[n]
                /\ n \notin DOMAIN previous_states.val
                /\ n \notin DOMAIN previous_restart_counts
                /\ n \notin DOMAIN previous_started_times

\* the calls of the sink: the entries of sent that were not skipped
SentIdx == 1..Len(sent)

ExemptTypes == {"container_stopped", "container_started", "container_restarted",
                "container_removed"}

\* C9: a container_stopped, container_started, container_restarted or
\* container_removed change is handed to the sink whatever the cooldown of
\* its key.
C9_ExemptAlwaysSent ==
    \A i \in SentIdx : sent[i].change.type \in ExemptTypes => sent[i].outcome # "skipped"

\* a container_stopped change of a key notified 5 seconds earlier
C9_Witness ==
    /\ op = "route"
    /\ Len(sent) = 2
    /\ sent[1].outcome = "ok"
    /\ sent[2].change.type = "container_stopped"
    /\ sent[2].change.container_name = sent[1].change.container_name
    /\ sent[2].at = sent[1].at + 5
    /\ is_in_cooldown(pre.ln, sent[2].change.container_name, sent[2].at)
    /\ sent[2].outcome # "skipped"

\* sent[i] and sent[j] are two state_change changes of one key, the first
\* delivered, with no delivery for that key between them
StatusChangePair(i, j) ==
    /\ i < j
    /\ sent[i].change.type = "state_change"
    /\ sent[j].change.type = "state_change"
    /\ sent[i].change.container_name = sent[j].change.container_name
    /\ sent[i].outcome = "ok"
    /\ \A k \in SentIdx :
           (i < k /\ k < j /\ sent[k].change.container_name = sent[i].change.container_name)
               => sent[k].outcome # "ok"

\* C10: of two state_change changes of one key, the first delivered, the
\* second is not handed to the sink when it is routed less than 120 seconds
\* after the first, and is handed to it when routed more than 120 seconds
\* after.
C10_CooldownWindow ==
    \A i, j \in SentIdx :
        StatusChangePair(i, j) =>
            /\ sent[j].at - sent[i].at < cooldown_seconds => sent[j].outcome = "skipped"
            /\ sent[j].at - sent[i].at > cooldown_seconds => sent[j].outcome # "skipped"

C10_Witness ==
    /\ op = "route"
    /\ Len(sent) = 2
    /\ StatusChangePair(1, 2)
    /\ sent[2].at - sent[1].at = 125
    /\ sent[2].outcome = "ok"

\* the entries of sent that the last call of process_changes wrote
CallIdx == {i \in SentIdx : i > Len(sent) - Len(changes)}

\* C11: a call of process_changes creates or moves the cooldown entry of a
\* key only when it delivered a state_change change for that key; and a
\* state_change change routed right after a delivered container_stopped,
\* container_started, container_restarted or container_removed change of its
\* key, with no state_change delivered for that key before, is handed to the
\* sink.
C11_OnlyStatusChangeArms ==
    op = "route" =>
        /\ \A k \in Names :
               Get(last_notifications, k, NoCount) # Get(pre.ln, k, NoCount) =>
                   \E i \in CallIdx :
                       /\ sent[i].change.type = "state_change"
                       /\ sent[i].change.container_name = k
                       /\ sent[i].outcome = "ok"
        /\ \A j \in SentIdx \ {1} :
               (/\ sent[j - 1].change.type \in ExemptTypes
                /\ sent[j - 1].outcome = "ok"
                /\ sent[j].change.type = "state_change"
                /\ sent[j].change.container_name = sent[j - 1].change.container_name
                /\ \A i \in 1..(j - 1) :
                       sent[i].change.container_name = sent[j].change.container_name
                           => sent[i].change.type \in ExemptTypes)
                   => sent[j].outcome # "skipped"

\* sent[j] was routed while a delivery to its key was less than 120 seconds old
InCooldownAt(j) ==
    \E i \in 1..(j - 1) :
        /\ sent[i].change.container_name = sent[j].change.container_name
        /\ sent[i].outcome = "ok"
        /\ sent[j].at - sent[i].at < cooldown_seconds

\* C12: process_changes returns without raising whatever the sink does, and
\* every change of the batch is handled: one that is not handed to the sink
\* is of a type subject to the cooldown and its key is in cooldown, never
\* left out because the sink failed or threw for an earlier change.
C12_SinkFailureDoesNotBlock ==
    op = "route" =>
        /\ ~raised
        /\ \A i \in 1..Len(changes) :
               sent[Len(sent) - Len(changes) + i].change = changes[i]
        /\ \A j \in SentIdx :
               sent[j].outcome = "skipped" =>
                   (sent[j].change.type \notin critical_changes /\ InCooldownAt(j))

\* a batch of two whose first sink call throws and whose second is delivered
C12_Witness ==
    /\ op = "route"
    /\ Len(changes) = 2
    /\ Len(sent) = 2
    /\ sent[1].outcome = "raise"
    /\ sent[2].outcome = "ok"

\* the threads that execute or schedule cycles
Cycling == {t \in Threads : tpc[t] \in AlivePcs \ {"exit", "finally"}}

InCycle == {t \in Threads : tpc[t] \in CyclePcs}

\* the threads on which Thread.start() was called
Launched == {t \in Threads : tpc[t] \notin {"none", "created"}}

\* C13: at any time at most one background thread executes or schedules
\* cycles, and at most one is inside check_function.
C13_SingleFlight ==
    /\ Cardinality(Cycling) <= 1
    /\ Cardinality(InCycle) <= 1

\* a start() that finds the monitor running returns and changes nothing
StartIsNoop ==
    \A c \in Callers :
        (cpc[c] = "start_locked" /\ cpc'[c] # "start_locked" /\ monitoring) =>
            /\ cpc'[c] = "idle"
            /\ UNCHANGED <<monitoring, shutdown_event, check_interval,
                           monitor_thread, tpc>>

\* as long as no stop() has cleared the flag, one Thread object at most is
\* created, and once the flag is set and no start() is in progress exactly
\* one thread has been launched
OneLaunch ==
    calls = "none" =>
        /\ Cardinality({t \in Threads : tpc[t] # "none"}) <= 1
        /\ (monitoring /\ \A c \in Callers : cpc[c] \notin StartPcs)
               => Cardinality(Launched) = 1

StopReturns ==
    \A c \in Callers :
        (cpc[c] \in {"stop_check", "stop_join"} /\ cpc'[c] = "idle") =>
            (monitoring' = FALSE \/ calls' = "restarted")

\* C15: every stop() call returns, and when a stop() on a running monitor
\* returns the running flag is False unless a start() has set it since,
\* whether or not the thread it joined has ended.
C15_StopReturns ==
    /\ [][StopReturns]_vars
    /\ \A c \in Callers : (cpc[c] = "stop_enter") ~> (cpc[c] = "idle")

\* stop() has returned after its join timed out: a cycle is still in flight
C15_Witness ==
    /\ calls = "stopped"
    /\ shutdown_event
    /\ ~monitoring
    /\ \A c \in Callers : cpc[c] = "idle"
    /\ InCycle # {}

\* an exception of check_function takes the thread to the wait of the
\* handler, and from there to the loop condition unless the event is set
ExceptionKeepsLoop ==
    \A t \in Threads :
        /\ (tpc[t] \in CyclePcs /\ tpc'[t] # tpc[t] /\ last_raised'
                /\ tpc'[t] \notin CyclePcs)
               => tpc'[t] = "wait_error"
        /\ (tpc[t] = "wait_error" /\ tpc'[t] # "wait_error")
               => tpc'[t] = IF shutdown_event THEN "exit" ELSE "test"

\* C16: an exception of check_function does not end the loop, which goes to
\* its wait and then, the event not set, to its next cycle; and when no
\* stop() ever clears the flag, a launched loop begins cycles again and again.
C16_LoopSurvivesException ==
    /\ [][ExceptionKeepsLoop]_vars
    /\ (<>(calls # "none") \/ []<>(Launched = {} \/ \E t \in Threads : tpc[t] = "fetch"))

\* a cycle begun after the previous one raised
C16_Witness ==
    /\ last_raised
    /\ calls = "none"
    /\ \E t \in Threads : tpc[t] = "fetch"

\* while the event stays set no thread enters check_function, and a thread
\* inside it leaves it only by finishing the cycle
NoNewCycle ==
    \A t \in Threads :
        /\ (shutdown_event /\ shutdown_event' /\ tpc[t] \notin CyclePcs)
               => tpc'[t] \notin CyclePcs
        /\ (tpc[t] \in CyclePcs /\ tpc'[t] \notin CyclePcs)
               => tpc'[t] \in {"wait", "wait_error"}

\* C17: once stop() has set the shutdown event, and until a start() clears
\* it, no thread begins a cycle, a cycle in flight is left to finish, and
\* every live thread ends.
C17_CancelStopsLoop ==
    /\ [][NoNewCycle]_vars
    /\ \A t \in Threads :
           (shutdown_event /\ is_alive(t)) ~> (tpc[t] = "done" \/ ~shutdown_event)

\* a thread has ended after stop() set the event
C17_Witness ==
    /\ shutdown_event
    /\ calls = "stopped"
    /\ \A c \in Callers : cpc[c] = "idle"
    /\ \E t \in Threads : tpc[t] = "done"

\* C18: a thread that is in the inventory fetch or in the sink call owns
\* none of the three locks, and a thread inside check_function does not own
\* the lock of the MonitoringThread.
C18_NoLockAcrossExternalCall ==
    \A t \in Threads :
        /\ tpc[t] \in {"fetch", "route"} => t \notin {lock, state_lock, cooldown_lock}
        /\ tpc[t] \in CyclePcs => lock # t

\* a thread in the sink call, after storing container_info under the state
\* lock, while a caller owns the lock of the MonitoringThread
C18_Witness ==
    \E t \in Threads :
        /\ tpc[t] = "route"
        /\ lock \in Callers
        /\ state_lock = Free

\* C19: a second call of detect_changes with the arguments of the first, and
\* no other call on the tracker in between, returns the list the first
\* returned.
C19_DetectTwiceSame ==
    (op = "again" /\ ~raised) => (~second.raised /\ second.changes = changes)

\* the tracker's maps after a cycle as detect_changes alone leaves them
StoreWithoutSink ==
    LET d == detect_changes(current_states, pre.states, container_info, pre.rc, pre.st)
    IN  [states |-> IF d.raised THEN pre.states ELSE current_states,
         rc |-> d.rc, st |-> d.st]

\* C20: after a cycle the previous statuses, restart counts and started
\* times are what the snapshot and the tracker's contents before the cycle
\* make them, whatever the sink did with the changes of the cycle.
C20_StoreIgnoresSink ==
    op = "cycle" =>
        /\ previous_states = StoreWithoutSink.states
        /\ previous_restart_counts = StoreWithoutSink.rc
        /\ previous_started_times = StoreWithoutSink.st

\* a cycle whose sink call threw and whose snapshot became the previous
\* states
C20_Witness ==
    /\ op = "cycle"
    /\ \E i \in SentIdx : sent[i].outcome = "raise"
    /\ previous_states = current_states
    /\ previous_states # pre.states


\* C21: a cycle whose detection left with an exception leaves the tracked
\* restart counts and started times as they were before the cycle.
C21_AbortKeepsTracking ==
    (op = "cycle" /\ raised) =>
        /\ previous_restart_counts = pre.rc
        /\ previous_started_times = pre.st

\* the transition change the specification names for a pair of statuses
NamedTransition(previous_status, current_status) ==
    IF previous_status = "running" /\ current_status \in {"stopped", "exited", "dead"}
    THEN "container_stopped"
    ELSE IF /\ previous_status \in {"stopped", "exited", "created", "paused"}
            /\ current_status = "running"
         THEN "container_started"
         ELSE "state_change"

\* C24: a known container with a different status and no restart change
\* gets exactly one change, of the type named for its pair of statuses:
\* container_stopped, container_started or state_change.
C24_TransitionMapping ==
    op = "cycle" =>
        \A n \in Names :
            (/\ IsKnown(n)
             /\ pre.states.val[n] # current_states.val[n]
             /\ ~AutoRestartFires(container_info[n].restart_count, TrackedCount(n))
             /\ ~ManualRestartFires(current_states.val[n], pre.states.val[n],
                                    container_info[n].started, TrackedStart(n))) =>
                /\ ~raised
                /\ Cardinality(EventsFor(n)) = 1
                /\ \A i \in EventsFor(n) :
                       changes[i].type = NamedTransition(pre.states.val[n],
                                                         current_states.val[n])

\* C25: in the list of one cycle a container has at most one automatic
\* container_restarted change, at most one manual one, and at most one
\* change among container_stopped, container_started and state_change.
C25_AtMostOnePerKind ==
    \A n \in Names :
        /\ Cardinality(RestartsFor(n, "automatic")) <= 1
        /\ Cardinality(RestartsFor(n, "manual")) <= 1
        /\ Cardinality(TypedFor(n, TransitionTypes)) <= 1

C25_Witness ==
    /\ op = "cycle" /\ ~raised
    /\ \E n \in Names :
           /\ Cardinality(RestartsFor(n, "automatic")) = 1
           /\ Cardinality(RestartsFor(n, "manual")) = 1
    /\ \E n \in Names : Cardinality(TypedFor(n, TransitionTypes)) = 1

\* C26: after detect_changes has returned, the tracked restart count of
\* every container of current is the restart count of the current snapshot.
C26_TrackedCountIsCurrent ==
    (op = "cycle" /\ ~raised /\ ~fetch_failed) =>
        \A n \in DOMAIN current_states.val :
            /\ n \in DOMAIN previous_restart_counts
            /\ previous_restart_counts[n] = container_info[n].restart_count

\* C27: after detect_changes, the tracked started time of a known container
\* is the current one when that is not empty and the prior one when it is.
C27_TrackedStartFollows ==
    op = "cycle" =>
        \A n \in Names :
            IsKnown(n) =>
                IF container_info[n].started # 0
                THEN /\ n \in DOMAIN previous_started_times
                     /\ previous_started_times[n] = container_info[n].started
                ELSE Get(previous_started_times, n, 0) = TrackedStart(n)

\* the position of container n in the iteration order of current
PositionOf(n) ==
    CHOOSE k \in 1..Len(current_states.keys) : current_states.keys[k] = n

\* C28: in the list detect_changes returns, every container_removed change
\* comes after every change of a container of current, and the changes of
\* the containers of current follow the iteration order of current.
C28_CurrentOrderThenRemoved ==
    (op = "cycle" /\ ~raised) =>
        \A i, j \in Idx :
            /\ (/\ changes[i].type = "container_removed"
                /\ InCurrent(changes[j].container_name)) => j < i
            /\ (/\ i < j
                /\ InCurrent(changes[i].container_name)
                /\ InCurrent(changes[j].container_name)) =>
                   PositionOf(changes[i].container_name)
                       <= PositionOf(changes[j].container_name)

\* the set of the changes of a list
ChangeSet(list) == {list[i] : i \in 1..Len(list)}

\* C29: detect_changes called from the tracker state of the cycle with the
\* containers of current in any other order fails when the cycle's call
\* failed, and otherwise returns the same set of changes.
C29_OrderIndependent ==
    (op = "cycle" /\ ~fetch_failed) =>
        \A order \in Orders(DOMAIN current_states.val) :
            \E d \in {detect_changes([keys |-> order, val |-> current_states.val],
                                     pre.states, container_info, pre.rc, pre.st)} :
                /\ d.raised = raised
                /\ ~raised => ChangeSet(d.changes) = ChangeSet(changes)


\* seconds after the present at which is_in_cooldown is asked
Offsets == {0, 5, 119, 120, 121, 125}

\* C30: is_in_cooldown(key) is true exactly when the key has an entry and
\* fewer than cooldown_seconds seconds have passed since it was written;
\* a state_change routed exactly cooldown_seconds after a delivered one of
\* its key is handed to the sink although the entry is still there.
C30_CooldownExactly ==
    /\ \A key \in Names, dt \in Offsets :
           is_in_cooldown(last_notifications, key, now + dt)
               <=> /\ key \in DOMAIN last_notifications
                   /\ (now + dt) - last_notifications[key] < cooldown_seconds
    /\ \A i, j \in SentIdx :
           (StatusChangePair(i, j) /\ sent[j].at - sent[i].at = cooldown_seconds)
               => sent[j].outcome # "skipped"

C30_Witness ==
    /\ op = "route"
    /\ Len(sent) = 2
    /\ StatusChangePair(1, 2)
    /\ sent[2].at - sent[1].at = cooldown_seconds
    /\ sent[2].change.container_name \in DOMAIN pre.ln
    /\ pre.ln[sent[2].change.container_name] = sent[1].at
    /\ sent[2].outcome = "ok"


SendIdx == 1..Len(send_log)

\* C23: a send method of the notifier returns False, and raises nothing,
\* when building or posting the message raises or the response is not a
\* success, and returns True only when the post completed with a success
\* response.
C23_SendReturnsBool ==
    \A i \in SendIdx :
        /\ send_log[i].result \in {"True", "False"}
        /\ send_log[i].outcome # "completes" => send_log[i].result = "False"
        /\ send_log[i].result = "True" =>
               (send_log[i].posted /\ send_log[i].outcome = "completes")

C23_Witness ==
    /\ \E i \in SendIdx :
           /\ send_log[i].method = "send_custom_message"
           /\ send_log[i].outcome = "status_raises"
           /\ send_log[i].result = "False"
    /\ \E i \in SendIdx :
           /\ send_log[i].outcome = "completes"
           /\ send_log[i].result = "True"


\* the first cycle after the seed fetched exactly what the seed fetched
SeededInventoryAgain ==
    /\ op = "rtm_first"
    /\ ~fetch_failed
    /\ current_states.val = pre.states.val
    /\ container_info = pre.info

\* C22: the first poll cycle after start_monitoring's seed, when it fetches
\* exactly the seeded inventory, detects no change and calls the sink for
\* nothing.
C22_FirstPollQuiet ==
    SeededInventoryAgain => (changes = <<>> /\ sent = <<>>)


\* C31: a call of process_changes writes the cooldown entry of a key only
\* when the sink returned True for a change of that key in this call; after
\* a sink call that returned False or threw the entry is as before, and a
\* state_change is skipped only when a delivery to its key is less than
\* cooldown_seconds old.
C31_ArmedOnlyOnSuccess ==
    op = "route" =>
        /\ \A k \in Names :
               Get(last_notifications, k, NoCount) # Get(pre.ln, k, NoCount) =>
                   \E i \in CallIdx :
                       /\ sent[i].change.container_name = k
                       /\ sent[i].outcome = "ok"
        /\ (\A i \in CallIdx : sent[i].outcome # "ok") => last_notifications = pre.ln
        /\ \A j \in SentIdx :
               (sent[j].change.type = "state_change" /\ ~InCooldownAt(j))
                   => sent[j].outcome # "skipped"

\* a state_change whose sink call failed, and 5 seconds later a state_change
\* of the same key that is handed to the sink
C31_Witness ==
    /\ op = "route"
    /\ Len(sent) = 2
    /\ Len(changes) = 1
    /\ sent[1].change.type = "state_change"
    /\ sent[1].outcome \in {"fail", "raise"}
    /\ sent[2].change.type = "state_change"
    /\ sent[2].change.container_name = sent[1].change.container_name
    /\ sent[2].at = sent[1].at + 5
    /\ pre.ln = EmptyMap
    /\ sent[2].outcome = "ok"


\* the alert level the specification names for a change
NamedLevel(change) ==
    IF change.type \in {"container_stopped", "container_removed"} THEN "critical"
    ELSE IF change.type = "container_restarted"
    THEN IF change.current_status # "running" THEN "critical" ELSE "warning"
    ELSE IF /\ change.type = "state_change"
            /\ change.current_status \in {"unhealthy", "restarting"}
    THEN "warning"
    ELSE "info"

\* C32: the alert level of a notification is critical for container_stopped
\* and container_removed, critical for a container_restarted whose current
\* status is not running and warning otherwise, warning for a state_change
\* into unhealthy or restarting whatever the previous status, and info for
\* everything else.
C32_SeverityMapping ==
    formatted # NoChange => notification.alert_level = NamedLevel(formatted)


\* C33: after every poll cycle, returned or aborted, every container with a
\* tracked restart count or started time has a previous status.
C33_TrackingWithinPrevious ==
    op = "cycle" =>
        /\ DOMAIN previous_restart_counts \subseteq DOMAIN previous_states.val
        /\ DOMAIN previous_started_times \subseteq DOMAIN previous_states.val


\* C34: within a cycle the previous statuses stay as they were until every
\* change of the cycle has been handled, and after a cycle that completes
\* they are exactly the statuses fetched in it.
C34_PreviousReplacedLast ==
    /\ op \in {"rtm_fetched", "rtm_routing", "rtm_aborted"} =>
           previous_states = pre.states
    /\ op = "rtm_done" =>
           /\ Len(sent) = Len(changes)
           /\ \A i \in 1..Len(changes) : sent[i].change = changes[i]
           /\ previous_states = current_states

\* a completed cycle with two changes, both handled, whose fetch replaced
\* the previous statuses
C34_Witness ==
    /\ op = "rtm_done"
    /\ ~fetch_failed
    /\ Len(changes) = 2
    /\ Len(sent) = 2
    /\ previous_states # pre.states
    /\ previous_states = current_states


\* a start() has set the running flag and returned, and no stop() has been
\* called since: the flag is set, a thread was launched and no call of
\* start() or stop() is in progress (only start() sets the flag, and a
\* stop() called afterwards is in progress or has cleared it)
StartedAndNotStopped ==
    /\ monitoring
    /\ Launched # {}
    /\ \A c \in Callers : cpc[c] = "idle"

\* from there the flag stays set unless a stop() is called, and the thread
\* of the last start() does not take the exit path
StaysRunning ==
    StartedAndNotStopped =>
        /\ monitoring'
        /\ tpc'[monitor_thread] \notin {"exit", "finally", "done"}

\* C35: once start() has returned and until stop() is next called the
\* running flag stays True and the loop of the launched thread goes on: no
\* thread's exit path clears the flag.
C35_StaysRunningUntilStop == [][StaysRunning]_vars

\* C36: get_status(), which any thread may call whenever the lock is free,
\* never returns monitoring True together with shutdown_event_set True.
C36_StatusNeverRunningAndCancelled ==
    lock = Free =>
        ~(get_status.monitoring /\ get_status.shutdown_event_set)

\* a stop() that finds the running flag False returns from its locked block
\* and leaves the flag, the shutdown event, the thread field, the threads
\* and the thread it would join as they are
StopIsNoop ==
    \A c \in Callers :
        (cpc[c] = "stop_locked" /\ cpc'[c] # "stop_locked" /\ ~monitoring) =>
            /\ cpc'[c] = "idle"
            /\ ~monitoring'
            /\ UNCHANGED <<shutdown_event, monitor_thread, check_interval,
                           tpc, joined, calls>>

\* C37: stop() on a monitor whose running flag is False sets no shutdown
\* event, joins no thread and leaves the flag False: a second stop() does
\* nothing more than the first.
C37_StopNotRunningIsNoop == [][StopIsNoop]_vars

\* a second stop(), in its locked block after an earlier stop() has cleared
\* the flag and returned
C37_Witness ==
    /\ calls = "stopped"
    /\ ~monitoring
    /\ shutdown_event
    /\ \E c \in Callers :
           /\ cpc[c] = "stop_locked"
           /\ \A d \in Callers \ {c} : cpc[d] = "idle"

\* container n is known, was running and is running, and its restart count
\* is not above the tracked one
StaysRunningNoAuto(n) ==
    /\ IsKnown(n)
    /\ pre.states.val[n] = "running"
    /\ current_states.val[n] = "running"
    /\ ~AutoRestartFires(container_info[n].restart_count, TrackedCount(n))

\* C38: a known container that was and is running and whose restart count
\* did not increase gets no change from detect_changes, whatever its
\* started time, and its tracked started time is the started time of the
\* current snapshot (when the snapshot has one).
C38_RunningStartChangeSilent ==
    op = "cycle" =>
        \A n \in Names :
            StaysRunningNoAuto(n) =>
                /\ EventsFor(n) = {}
                /\ container_info[n].started # 0 =>
                       /\ n \in DOMAIN previous_started_times
                       /\ previous_started_times[n] = container_info[n].started

\* when sent[j] was routed a cooldown was active for its key: a change of
\* that key was delivered less than cooldown_seconds earlier
CooldownActiveAt(j) ==
    \E i \in SentIdx :
        /\ i < j
        /\ sent[i].change.container_name = sent[j].change.container_name
        /\ sent[i].outcome = "ok"
        /\ sent[j].at - sent[i].at < cooldown_seconds

\* C39: a container_added change is handed to the sink when no cooldown is
\* active for its key and skipped when one is; a container removed and added
\* again within the cooldown of a delivered notification of its key gets no
\* container_added notification.
C39_AddedUnderCooldown ==
    \A j \in SentIdx :
        sent[j].change.type = "container_added" =>
            (sent[j].outcome = "skipped" <=> CooldownActiveAt(j))

\* the removal of a is delivered and, 5 seconds later, a is added again:
\* the container_added change is skipped
C39_Witness ==
    /\ op = "route"
    /\ Len(sent) = 2
    /\ sent[1].change.type = "container_removed"
    /\ sent[1].outcome = "ok"
    /\ sent[2].change.type = "container_added"
    /\ sent[2].change.container_name = sent[1].change.container_name
    /\ sent[2].at = sent[1].at + 5
    /\ sent[2].outcome = "skipped"

\* the automatic container_restarted changes of the cycle
AutomaticRestarts ==
    {i \in Idx : /\ changes[i].type = "container_restarted"
                 /\ changes[i].restart_type = "automatic"}

\* every automatic container_restarted change has a previous restart count
\* below its current one
AutomaticCountsRise ==
    \A i \in AutomaticRestarts :
        changes[i].previous_restart_count < changes[i].current_restart_count

\* a container that has a tracked restart count before and after a step
\* has one at least as high afterwards
CountNeverDecreases ==
    \A n \in Names :
        (n \in DOMAIN previous_restart_counts /\ n \in DOMAIN previous_restart_counts') =>
            previous_restart_counts'[n] >= previous_restart_counts[n]

\* C40: every automatic container_restarted change carries a previous
\* restart count strictly below its current restart count, and the tracked
\* restart count of a container never decreases while the container stays
\* tracked.
C40_RestartCountMonotone == []AutomaticCountsRise /\ [][CountNeverDecreases]_vars

====
